---------------------------- MODULE Spec2Model ----------------------------
(***************************************************************************)
(* NPS analysis service: the analyzer object (nps_analyzer.py) and the     *)
(* web session that owns one process-wide analyzer (app.py).               *)
(*                                                                         *)
(* Numbers.  The code computes in binary floating point; the model         *)
(* computes the same expressions over exact rationals in fixed-point       *)
(* integer units:                                                          *)
(*   denominator weight  w     tenths        (0.6  is 6,  1 is 10)         *)
(*   promoter score      prom  thousandths   (0.333 is 333, 1 is 1000)     *)
(*   promoter * weight         1e-4 units                                  *)
(*   every value the code rounds to 2 decimals: hundredths                 *)
(*   every value the code rounds to 4 decimals: 1e-4 units                 *)
(* An unrounded quotient is kept as a reduced fraction [n, d].             *)
(***************************************************************************)
EXTENDS Integers, Sequences, FiniteSets

VARIABLES
    analyzer,     \* the analyzer object (in the web session: the global)
    resp,         \* what the last operation returned
    ever_loaded   \* history: some load has succeeded

vars == <<analyzer, resp, ever_loaded>>

(***************************************************************************)
(* Bounds of the model.                                                    *)
(***************************************************************************)
\* longest table uploaded in the session specifications
MaxUploadRows == 2
\* longest table the query specification loads
MaxRows == 3

(***************************************************************************)
(* Arithmetic helpers.                                                     *)
(***************************************************************************)
Abs(x) == IF x < 0 THEN -x ELSE x

RECURSIVE GCD(_, _)
GCD(a, b) == IF b = 0 THEN a ELSE GCD(b, a % b)

\* the fraction n/d (d > 0) in lowest terms
Frac(n, d) ==
    LET g == GCD(Abs(n), d)
    IN  [n |-> n \div g, d |-> d \div g]

\* round(a / b) to the nearest integer, ties to even (b > 0): Python's round()
RoundDiv(a, b) ==
    LET q == a \div b
        r == a % b
    IN  IF 2 * r < b THEN q
        ELSE IF 2 * r > b THEN q + 1
        ELSE IF q % 2 = 0 THEN q ELSE q + 1

RECURSIVE SumInts(_)
SumInts(s) == IF s = <<>> THEN 0 ELSE Head(s) + SumInts(Tail(s))

\* sum of f(row) over the rows: the pandas Series.sum()
SumSeq(s, f(_)) == SumInts([i \in DOMAIN s |-> f(s[i])])

\* boolean-mask selection df[mask], keeping the row order
SelectRows(s, P(_)) == SelectSeq(s, P)

(***************************************************************************)
(* The table and its columns.                                              *)
(***************************************************************************)
REQUIRED_COLUMNS ==
    {"order_id", "supplier_id", "supplier_name", "sub_uid", "sub_name",
     "travel_date", "follower_id", "follower_name", "denominator",
     "detractor", "promoter", "feedback"}

\* a record of the table; names are integer codes, travel_date counts
\* half-days (a timestamp with a time of day)
MkRow(sid, sub, w, det, prom, fb) ==
    [order_id |-> 0, supplier_id |-> sid, supplier_name |-> sid,
     sub_uid |-> sub, sub_name |-> sub, travel_date |-> 2 * sub + (sub % 2),
     follower_id |-> 3 - sub, follower_name |-> 3 - sub,
     denominator |-> w, detractor |-> det, promoter |-> prom, feedback |-> fb]

\* the order numbers of a sheet: one per line
WithOrderIds(rows) == [i \in DOMAIN rows |-> [rows[i] EXCEPT !.order_id = i]]

SeqsUpTo(S, n) == UNION {[1..k -> S] : k \in 0..n}

NoDf == [tag |-> "None"]
DataFrame(cols, rows) == [tag |-> "DataFrame", cols |-> cols, rows |-> rows]

NoAnalyzer == [tag |-> "None"]

\* NPSAnalyzer.__init__
NPSAnalyzer(nps_target) ==
    [tag |-> "NPSAnalyzer", nps_target |-> nps_target, df |-> NoDf,
     overall_nps |-> Frac(0, 1)]

Den(r) == r.denominator
Det(r) == r.detractor
PromW(r) == r.promoter * r.denominator

\* the unrounded nps of a set of rows, (promoter/denominator -
\* detractor/denominator) * 100, as a fraction; denominator sum > 0
RawNps(rows) ==
    Frac(SumSeq(rows, PromW) - 10000 * SumSeq(rows, Det), 10 * SumSeq(rows, Den))

\* NPSAnalyzer._calculate_overall_nps: the value of self.overall_nps after it
calculate_overall_nps(a, rows) ==
    IF SumSeq(rows, Den) > 0 THEN RawNps(rows) ELSE a.overall_nps

\* pd.read_excel outcomes: an unreadable file raises, a sheet parses to a table
Unreadable == [kind |-> "unreadable"]
Sheet(cols, rows) == [kind |-> "sheet", cols |-> cols, rows |-> rows]

\* df[supplier_name].nunique(): the number of distinct supplier names
NUnique(rows) == Cardinality({rows[i].supplier_name : i \in DOMAIN rows})

\* NPSAnalyzer.load_excel: the analyzer after the call and the returned pair
\* (the message of a success names the record and supplier counts)
load_excel(a, file) ==
    IF file.kind = "unreadable"
    THEN [a |-> a, ok |-> FALSE, msg |-> "read_error", missing |-> {},
          records |-> 0, nsuppliers |-> 0]
    ELSE LET a1 == [a EXCEPT !.df = DataFrame(file.cols, file.rows)]
             missing == REQUIRED_COLUMNS \ file.cols
         IN  IF missing # {}
             THEN [a |-> a1, ok |-> FALSE, msg |-> "missing_columns",
                   missing |-> missing, records |-> 0, nsuppliers |-> 0]
             ELSE [a |-> [a1 EXCEPT !.overall_nps =
                                        calculate_overall_nps(a1, file.rows)],
                   ok |-> TRUE, msg |-> "loaded", missing |-> {},
                   records |-> Len(file.rows), nsuppliers |-> NUnique(file.rows)]

(***************************************************************************)
(* Metric calculator.                                                      *)
(***************************************************************************)
\* a call either raises (a column is not in the table) or returns its rows
Raised == [raised |-> TRUE, data |-> <<>>]
Returned(data) == [raised |-> FALSE, data |-> data]

Has(df, cols) == cols \subseteq df.cols

MetricColumns == {"denominator", "detractor", "promoter"}

\* NPSAnalyzer._calc_nps_metrics
calc_nps_metrics(group) ==
    LET denominator == SumSeq(group, Den)
        detractor == SumSeq(group, Det)
        promoter == SumSeq(group, PromW)
        pos == denominator > 0
    IN  [count |-> Len(group),
         denominator |-> 10 * denominator,
         detractor |-> detractor,
         promoter |-> RoundDiv(promoter, 100),
         detractor_rate |-> IF pos THEN RoundDiv(100000 * detractor, denominator)
                            ELSE 0,
         promoter_rate |-> IF pos THEN RoundDiv(10 * promoter, denominator) ELSE 0,
         NPS |-> IF pos
                 THEN RoundDiv(10 * (promoter - 10000 * detractor), denominator)
                 ELSE 0]

(***************************************************************************)
(* Grouping and ordering.                                                  *)
(***************************************************************************)
KeyLess(a, b) == a[1] < b[1] \/ (a[1] = b[1] /\ a[2] < b[2])

RECURSIVE SortedKeys(_)
\* the group keys in ascending order: the iteration order of DataFrame.groupby
SortedKeys(S) ==
    IF S = {} THEN <<>>
    ELSE LET m == CHOOSE k \in S : \A o \in S : o = k \/ KeyLess(k, o)
         IN  <<m>> \o SortedKeys(S \ {m})

SupplierKey(r) == <<r.supplier_id, r.supplier_name>>
AccountKey(r) == <<r.sub_uid, r.sub_name>>
FollowerKey(r) == <<r.follower_id, r.follower_name>>
\* pd.to_datetime(...).dt.strftime('%Y-%m-%d'): the day, without the time of day
FormatDate(ts) == ts \div 2
DateKey(r) == <<FormatDate(r.travel_date), 0>>

GroupKeys(rows, Key(_)) == SortedKeys({Key(rows[i]) : i \in DOMAIN rows})
GroupOf(rows, Key(_), k) == LET In(r) == Key(r) = k IN SelectRows(rows, In)

RECURSIVE InsertDesc(_, _)
\* x placed after every element whose NPS is not smaller
InsertDesc(s, x) ==
    IF s = <<>> THEN <<x>>
    ELSE IF Head(s).NPS >= x.NPS THEN <<Head(s)>> \o InsertDesc(Tail(s), x)
    ELSE <<x>> \o s

RECURSIVE SortTiesReversed(_)
\* the sort with equal keys in reversed order: x placed before its equals
SortTiesReversed(s) ==
    IF s = <<>> THEN <<>>
    ELSE LET rest == SortTiesReversed(SubSeq(s, 1, Len(s) - 1))
             x == s[Len(s)]
             Before(e) == e.NPS > x.NPS
             NotBefore(e) == ~Before(e)
         IN  SelectSeq(rest, Before) \o <<x>> \o SelectSeq(rest, NotBefore)

RECURSIVE SortByNpsDesc(_)
\* list.sort(key=NPS, reverse=True): stable, equal keys keep their order
SortByNpsDesc(s) ==
    IF s = <<>> THEN <<>>
    ELSE InsertDesc(SortByNpsDesc(SubSeq(s, 1, Len(s) - 1)), s[Len(s)])

(***************************************************************************)
(* Supplier dimension.                                                     *)
(***************************************************************************)
\* (nps - reference) * weight as a fraction; nps in hundredths, the
\* reference and the weight fractions
Contribution(nps, ref, weight) ==
    Frac((nps * ref.d - 100 * ref.n) * weight.n, 100 * ref.d * weight.d)

BelowTarget(nps, target) == nps < 100 * target

NegativeContribution(contribution) == contribution.n < 0

\* one entry of get_overall_analysis, before ranking
OverallEntry(a, key, group) ==
    LET metrics == calc_nps_metrics(group)
        total == SumSeq(a.df.rows, Den)
        supplier_weight == IF total > 0 THEN Frac(metrics.denominator, 10 * total)
                           ELSE Frac(0, 1)
        contribution == Contribution(metrics.NPS, a.overall_nps, supplier_weight)
    IN  [supplier_id |-> key[1], supplier_name |-> key[2],
         count |-> metrics.count, denominator |-> metrics.denominator,
         detractor |-> metrics.detractor, promoter |-> metrics.promoter,
         detractor_rate |-> metrics.detractor_rate,
         promoter_rate |-> metrics.promoter_rate, NPS |-> metrics.NPS,
         below_target |-> BelowTarget(metrics.NPS, a.nps_target),
         contribution |-> RoundDiv(10000 * contribution.n, contribution.d),
         negative |-> NegativeContribution(contribution),
         rank |-> 0]

\* the enumerate(results, 1) loop
AssignRanks(results) == [i \in DOMAIN results |-> [results[i] EXCEPT !.rank = i]]

\* NPSAnalyzer.get_overall_analysis
get_overall_analysis(a) ==
    IF a.df.tag = "None" THEN Returned(<<>>)
    ELSE IF ~Has(a.df, {"supplier_id", "supplier_name"}) THEN Raised
    ELSE LET rows == a.df.rows
             keys == GroupKeys(rows, SupplierKey)
         IN  IF keys # <<>> /\ ~Has(a.df, MetricColumns) THEN Raised
             ELSE Returned(AssignRanks(SortByNpsDesc(
                      [i \in DOMAIN keys |->
                          OverallEntry(a, keys[i],
                                       GroupOf(rows, SupplierKey, keys[i]))])))

\* NPSAnalyzer.get_supplier_list
get_supplier_list(a) ==
    IF a.df.tag = "None" THEN Returned(<<>>)
    ELSE IF ~Has(a.df, {"supplier_id", "supplier_name"}) THEN Raised
    ELSE LET rows == a.df.rows
             keys == GroupKeys(rows, SupplierKey)
         IN  Returned([i \in DOMAIN keys |->
                 [id |-> keys[i][1], name |-> keys[i][2],
                  count |-> Len(GroupOf(rows, SupplierKey, keys[i]))]])

(***************************************************************************)
(* Order classifier and follow-up list.                                    *)
(***************************************************************************)
\* the priority rule with its first test reading the feedback flag too
PriorityReadingFeedback(row) ==
    IF row.denominator = 10 /\ row.detractor = 1 /\ row.feedback = 1 THEN 1
    ELSE IF row.denominator = 6 THEN 2
    ELSE 3

\* the priority branch of get_followup_management
Priority(row) ==
    IF row.denominator = 10 /\ row.detractor = 1 THEN 1
    ELSE IF row.denominator = 6 THEN 2
    ELSE 3

\* the follow-up type branch of get_followup_management
FollowupType(row) ==
    IF row.feedback = 0 THEN "solicit_positive"
    ELSE IF row.feedback = 1 /\ row.detractor = 1 THEN "convert_detractor"
    ELSE "none_needed"

FollowupEntry(row) ==
    [order_id |-> row.order_id,
     priority |-> Priority(row),
     priority_desc |-> IF Priority(row) = 1
                       THEN [label |-> "denominator_1_detractor", value |-> 10]
                       ELSE IF Priority(row) = 2
                       THEN [label |-> "denominator_0.6", value |-> 6]
                       ELSE [label |-> "denominator", value |-> row.denominator],
     followup_type |-> FollowupType(row),
     denominator |-> row.denominator,
     is_detractor |-> row.detractor = 1,
     has_feedback |-> row.feedback = 1,
     promoter |-> row.promoter]

\* the sort key (priority, -denominator), compared as Python compares tuples
FollowupKeyLeq(x, y) ==
    \/ x.priority < y.priority
    \/ x.priority = y.priority /\ -x.denominator <= -y.denominator

RECURSIVE InsertFollowup(_, _)
InsertFollowup(s, x) ==
    IF s = <<>> THEN <<x>>
    ELSE IF FollowupKeyLeq(Head(s), x) THEN <<Head(s)>> \o InsertFollowup(Tail(s), x)
    ELSE <<x>> \o s

RECURSIVE SortFollowup(_)
\* list.sort(key=(priority, -denominator)): stable, ascending
SortFollowup(s) ==
    IF s = <<>> THEN <<>>
    ELSE InsertFollowup(SortFollowup(SubSeq(s, 1, Len(s) - 1)), s[Len(s)])

\* the rows of one supplier: df[df.supplier_id == supplier_id]
SupplierRows(a, supplier_id) ==
    LET Mine(r) == r.supplier_id = supplier_id IN SelectRows(a.df.rows, Mine)

\* NPSAnalyzer.get_followup_management
get_followup_management(a, supplier_id) ==
    IF a.df.tag = "None" THEN Returned(<<>>)
    ELSE IF ~Has(a.df, {"supplier_id"}) THEN Raised
    ELSE LET supplier_df == SupplierRows(a, supplier_id)
         IN  IF supplier_df = <<>> THEN Returned(<<>>)
             ELSE IF ~Has(a.df, {"denominator", "detractor", "feedback",
                                 "order_id", "promoter"}) THEN Raised
             ELSE Returned(SortFollowup(
                      [i \in DOMAIN supplier_df |-> FollowupEntry(supplier_df[i])]))

(***************************************************************************)
(* Date dimension.                                                         *)
(***************************************************************************)
FracLess(x, y) == x.n * y.d < y.n * x.d

RECURSIVE DateEntries(_, _, _, _, _, _)
\* the loop of get_date_dimension over the sorted dates, carrying the
\* cumulative totals and the previous cumulative nps (none before the first)
DateEntries(rows, dates, cum_den, cum_det, cum_prom, prev) ==
    IF dates = <<>> THEN <<>>
    ELSE LET metrics == calc_nps_metrics(GroupOf(rows, DateKey, Head(dates)))
             cumulative_denominator == cum_den + metrics.denominator
             cumulative_detractor == cum_det + metrics.detractor
             cumulative_promoter == cum_prom + metrics.promoter
             cumulative_nps ==
                 IF cumulative_denominator > 0
                 THEN Frac(100 * (cumulative_promoter - 100 * cumulative_detractor),
                           cumulative_denominator)
                 ELSE Frac(0, 1)
             is_improved ==
                 IF prev = <<>> THEN "-"
                 ELSE IF FracLess(prev[1], cumulative_nps) THEN "yes"
                 ELSE IF FracLess(cumulative_nps, prev[1]) THEN "no"
                 ELSE "flat"
         IN  <<[date |-> Head(dates)[1],
                count |-> metrics.count,
                denominator |-> metrics.denominator,
                detractor |-> metrics.detractor,
                promoter |-> metrics.promoter,
                day_nps |-> metrics.NPS,
                cumulative_nps |-> RoundDiv(100 * cumulative_nps.n, cumulative_nps.d),
                is_improved |-> is_improved]>>
             \o DateEntries(rows, Tail(dates), cumulative_denominator,
                            cumulative_detractor, cumulative_promoter,
                            <<cumulative_nps>>)

\* NPSAnalyzer.get_date_dimension
get_date_dimension(a, supplier_id) ==
    IF a.df.tag = "None" THEN Returned(<<>>)
    ELSE IF ~Has(a.df, {"supplier_id"}) THEN Raised
    ELSE LET supplier_df == SupplierRows(a, supplier_id)
         IN  IF supplier_df = <<>> THEN Returned(<<>>)
             ELSE IF ~Has(a.df, {"travel_date"} \cup MetricColumns) THEN Raised
             ELSE Returned(DateEntries(supplier_df, GroupKeys(supplier_df, DateKey),
                                       0, 0, 0, <<>>))

(***************************************************************************)
(* Sub-account and follower dimensions.                                    *)
(***************************************************************************)
\* the flag the two per-supplier dimensions report as negative contribution
NegativeFlag(nps, supplier_nps, contribution) == nps < supplier_nps

\* one entry of get_account_dimension / get_follower_dimension
DimensionEntry(key, group, supplier_metrics) ==
    LET metrics == calc_nps_metrics(group)
        supplier_nps == supplier_metrics.NPS
        weight == IF supplier_metrics.denominator > 0
                  THEN Frac(metrics.denominator, supplier_metrics.denominator)
                  ELSE Frac(0, 1)
        contribution == Contribution(metrics.NPS, Frac(supplier_nps, 100), weight)
    IN  [id |-> key[1], name |-> key[2],
         count |-> metrics.count, denominator |-> metrics.denominator,
         detractor |-> metrics.detractor, promoter |-> metrics.promoter,
         detractor_rate |-> metrics.detractor_rate,
         promoter_rate |-> metrics.promoter_rate, NPS |-> metrics.NPS,
         contribution |-> RoundDiv(10000 * contribution.n, contribution.d),
         negative |-> NegativeFlag(metrics.NPS, supplier_nps, contribution)]

\* the body shared by the two dimensions, which differ in the grouping key
DimensionBy(a, supplier_id, Key(_), key_columns) ==
    IF a.df.tag = "None" THEN Returned(<<>>)
    ELSE IF ~Has(a.df, {"supplier_id"}) THEN Raised
    ELSE LET supplier_df == SupplierRows(a, supplier_id)
         IN  IF supplier_df = <<>> THEN Returned(<<>>)
             ELSE IF ~Has(a.df, MetricColumns \cup key_columns) THEN Raised
             ELSE LET supplier_metrics == calc_nps_metrics(supplier_df)
                      keys == GroupKeys(supplier_df, Key)
                  IN  Returned(SortByNpsDesc(
                          [i \in DOMAIN keys |->
                              DimensionEntry(keys[i], GroupOf(supplier_df, Key, keys[i]),
                                             supplier_metrics)]))

\* NPSAnalyzer.get_account_dimension
get_account_dimension(a, supplier_id) ==
    DimensionBy(a, supplier_id, AccountKey, {"sub_uid", "sub_name"})

\* NPSAnalyzer.get_follower_dimension
get_follower_dimension(a, supplier_id) ==
    DimensionBy(a, supplier_id, FollowerKey, {"follower_id", "follower_name"})

(***************************************************************************)
(* Export.                                                                 *)
(***************************************************************************)
\* NPSAnalyzer.to_csv: the empty string for no data, else the entries under
\* the header (every view's column list names every field of its entries)
to_csv(data, columns) ==
    IF data = <<>> THEN [header |-> <<>>, lines |-> <<>>]
    ELSE [header |-> columns, lines |-> data]

OverallColumns ==
    <<"rank", "supplier_id", "supplier_name", "count", "denominator", "detractor",
      "promoter", "detractor_rate", "promoter_rate", "NPS", "below_target",
      "contribution", "negative">>
FollowupColumns ==
    <<"order_id", "priority", "priority_desc", "followup_type", "denominator",
      "is_detractor", "has_feedback", "promoter">>
DateColumns ==
    <<"date", "count", "denominator", "detractor", "promoter", "day_nps",
      "cumulative_nps", "is_improved">>
DimensionColumns ==
    <<"id", "name", "count", "denominator", "detractor", "promoter",
      "detractor_rate", "promoter_rate", "NPS", "contribution", "negative">>

DTypes == {"followup", "date", "account", "follower"}

\* the view a download type selects
ViewOf(a, supplier_id, dtype) ==
    CASE dtype = "followup" -> get_followup_management(a, supplier_id)
      [] dtype = "date" -> get_date_dimension(a, supplier_id)
      [] dtype = "account" -> get_account_dimension(a, supplier_id)
      [] dtype = "follower" -> get_follower_dimension(a, supplier_id)

ColumnsOf(dtype) ==
    CASE dtype = "followup" -> FollowupColumns
      [] dtype = "date" -> DateColumns
      [] dtype = "account" -> DimensionColumns
      [] dtype = "follower" -> DimensionColumns

DTypeOrder == <<"followup", "date", "account", "follower">>

RECURSIVE Concat(_)
Concat(ss) == IF ss = <<>> THEN <<>> ELSE Head(ss) \o Concat(Tail(ss))

\* the four views of every listed supplier, in the order the archive is written
SupplierViews(a, suppliers) ==
    [i \in DOMAIN suppliers |->
        [k \in DOMAIN DTypeOrder |->
            [path |-> [folder |-> suppliers[i].name, file |-> DTypeOrder[k]],
             columns |-> ColumnsOf(DTypeOrder[k]),
             view |-> ViewOf(a, suppliers[i].id, DTypeOrder[k])]]]

\* the archive written from the overall table and the suppliers' views: one
\* entry per non-empty table; any call that raised aborts the export
Archive(overall, suppliers, views) ==
    LET NonEmpty(v) == v.view.data # <<>>
    IN  IF overall.raised \/ suppliers.raised
           \/ \E i \in DOMAIN views : views[i].view.raised
        THEN Raised
        ELSE Returned(
            (IF overall.data = <<>> THEN <<>>
             ELSE <<[path |-> [folder |-> 0, file |-> "overall"],
                     csv |-> to_csv(overall.data, OverallColumns)]>>)
            \o [i \in DOMAIN SelectSeq(views, NonEmpty) |->
                   [path |-> SelectSeq(views, NonEmpty)[i].path,
                    csv |-> to_csv(SelectSeq(views, NonEmpty)[i].view.data,
                                   SelectSeq(views, NonEmpty)[i].columns)]])

\* NPSAnalyzer.generate_all_csvs
generate_all_csvs(a) ==
    Archive(get_overall_analysis(a), get_supplier_list(a),
            Concat(SupplierViews(a, get_supplier_list(a).data)))

(***************************************************************************)
(* Inputs.                                                                 *)
(***************************************************************************)
\* the default of NPSAnalyzer(nps_target=60) and of the two request readers
DefaultTarget == 60

Targets == {0, DefaultTarget}

\* the nps_target field of the upload form: absent, so the default is read
UploadTargets == {DefaultTarget}

\* supplier ids a request may name; 3 is in no table
SupplierIds == {1, 2, 3}

\* rows of the uploaded tables: a promoter and a detractor of supplier 1, a
\* promoter of supplier 2
UploadRowSet ==
    {MkRow(1, 1, 10, 0, 1000, 0), MkRow(1, 1, 10, 1, 0, 0), MkRow(2, 1, 10, 0, 1000, 0)}

UploadTables == {WithOrderIds(t) : t \in SeqsUpTo(UploadRowSet, MaxUploadRows)}

\* the column sets of the uploaded sheets: complete, or lacking one column
ColumnChoices ==
    {REQUIRED_COLUMNS, REQUIRED_COLUMNS \ {"order_id"},
     REQUIRED_COLUMNS \ {"denominator"}}

Files ==
    {Unreadable} \cup {Sheet(cols, rows) : cols \in ColumnChoices, rows \in UploadTables}

(***************************************************************************)
(* The web session (app.py): one process-wide analyzer.                    *)
(***************************************************************************)
Response(op, args, status, body) ==
    [op |-> op, args |-> args, status |-> status, body |-> body]

NoBody == [message |-> "none"]
Rejected(op, args, message) == Response(op, args, "rejected", [message |-> message])
\* an exception no handler catches: the server answers 500
ServerError(op, args) == Response(op, args, "error", NoBody)

\* round(a.overall_nps, 2)
RoundedOverall(a) == RoundDiv(100 * a.overall_nps.n, a.overall_nps.d)

\* the analyzer the failing branch of upload_file leaves as the global
UploadFailed(old, new) == new

\* upload_file
Upload ==
    \E form \in {"no_file", "empty_name", "not_excel", "bad_target", "excel"} :
      IF form \in {"no_file", "empty_name"}
      THEN /\ resp' = Rejected("upload", <<form>>, "no_file_selected")
           /\ UNCHANGED <<analyzer, ever_loaded>>
      ELSE IF form = "not_excel"
      THEN /\ resp' = Rejected("upload", <<form>>, "not_an_excel_file")
           /\ UNCHANGED <<analyzer, ever_loaded>>
      ELSE IF form = "bad_target"
      THEN /\ resp' = ServerError("upload", <<form>>)
           /\ UNCHANGED <<analyzer, ever_loaded>>
      ELSE \E nps_target \in UploadTargets, file \in Files :
           LET r == load_excel(NPSAnalyzer(nps_target), file)
           IN  IF r.ok
               THEN /\ analyzer' = r.a
                    /\ ever_loaded' = TRUE
                    /\ resp' = Response("upload", <<form>>, "ok",
                                 [records |-> r.records,
                                  nsuppliers |-> r.nsuppliers,
                                  overall_nps |-> RoundedOverall(r.a),
                                  suppliers |-> get_supplier_list(r.a).data])
               ELSE /\ analyzer' = UploadFailed(analyzer, r.a)
                    /\ UNCHANGED ever_loaded
                    /\ resp' = Response("upload", <<form>>, "rejected",
                                 [message |-> r.msg, missing |-> r.missing])

\* set_target building a new analyzer for the target, as upload_file does
WithTargetFresh(a, target) == NPSAnalyzer(target)

\* the analyzer set_target leaves: only its target is assigned
WithTarget(a, target) == [a EXCEPT !.nps_target = target]

\* set_target
SetTarget ==
    \E target \in Targets :
      IF analyzer.tag # "None"
      THEN /\ analyzer' = WithTarget(analyzer, target)
           /\ resp' = Response("set_target", <<target>>, "ok", [target |-> target])
           /\ UNCHANGED ever_loaded
      ELSE /\ resp' = Rejected("set_target", <<target>>, "upload_first")
           /\ UNCHANGED <<analyzer, ever_loaded>>

\* get_analyzer: the global, created on first use
get_analyzer(global) ==
    IF global.tag = "None" THEN NPSAnalyzer(DefaultTarget) ELSE global

\* the answer of a query handler whose view is `view`
Answer(op, args, view, body) ==
    IF view.raised THEN ServerError(op, args) ELSE Response(op, args, "ok", body)

\* get_overall
GetOverall ==
    LET a == get_analyzer(analyzer)
        data == get_overall_analysis(a)
    IN  /\ analyzer' = a
        /\ UNCHANGED ever_loaded
        /\ resp' = IF a.df.tag = "None" THEN Rejected("overall", <<>>, "upload_first")
                   ELSE Answer("overall", <<>>, data,
                               [data |-> data.data,
                                overall_nps |-> RoundedOverall(a),
                                target |-> a.nps_target])

\* get_supplier
GetSupplier ==
    \E supplier_id \in SupplierIds :
      LET a == get_analyzer(analyzer)
          followup == get_followup_management(a, supplier_id)
          date_dimension == get_date_dimension(a, supplier_id)
          account_dimension == get_account_dimension(a, supplier_id)
          follower_dimension == get_follower_dimension(a, supplier_id)
          any == [raised |-> followup.raised \/ date_dimension.raised
                             \/ account_dimension.raised \/ follower_dimension.raised]
      IN  /\ analyzer' = a
          /\ UNCHANGED ever_loaded
          /\ resp' = IF a.df.tag = "None"
                     THEN Rejected("supplier", <<supplier_id>>, "upload_first")
                     ELSE Answer("supplier", <<supplier_id>>, any,
                                 [followup |-> followup.data,
                                  date_dimension |-> date_dimension.data,
                                  account_dimension |-> account_dimension.data,
                                  follower_dimension |-> follower_dimension.data])

\* download_overall
DownloadOverall ==
    LET a == get_analyzer(analyzer)
        data == get_overall_analysis(a)
    IN  /\ analyzer' = a
        /\ UNCHANGED ever_loaded
        /\ resp' = IF a.df.tag = "None"
                   THEN Rejected("download_overall", <<>>, "upload_first")
                   ELSE Answer("download_overall", <<>>, data,
                               [csv |-> to_csv(data.data, OverallColumns)])

\* download_supplier
DownloadSupplier ==
    \E supplier_id \in SupplierIds, dtype \in DTypes \cup {"other"} :
      LET a == get_analyzer(analyzer)
          args == <<supplier_id, dtype>>
      IN  /\ analyzer' = a
          /\ UNCHANGED ever_loaded
          /\ resp' = IF a.df.tag = "None"
                     THEN Rejected("download_supplier", args, "upload_first")
                     ELSE IF dtype \notin DTypes
                     THEN Rejected("download_supplier", args, "unknown_type")
                     ELSE LET data == ViewOf(a, supplier_id, dtype)
                          IN  Answer("download_supplier", args, data,
                                     [csv |-> to_csv(data.data, ColumnsOf(dtype))])

\* download_all
DownloadAll ==
    LET a == get_analyzer(analyzer)
        zip == generate_all_csvs(a)
    IN  /\ analyzer' = a
        /\ UNCHANGED ever_loaded
        /\ resp' = IF a.df.tag = "None"
                   THEN Rejected("download_all", <<>>, "upload_first")
                   ELSE Answer("download_all", <<>>, zip, [zip |-> zip.data])

Init ==
    /\ analyzer = NoAnalyzer
    /\ resp = Response("start", <<>>, "ok", NoBody)
    /\ ever_loaded = FALSE

Next ==
    \/ Upload
    \/ SetTarget
    \/ GetOverall
    \/ GetSupplier
    \/ DownloadOverall
    \/ DownloadSupplier
    \/ DownloadAll

Spec == Init /\ [][Next]_vars

(***************************************************************************)
(* The analyzer used as an object (nps_analyzer.py): one NPSAnalyzer, its  *)
(* methods called in any order.                                            *)
(***************************************************************************)
\* the value a method call hands back
Result(op, args, view) ==
    Response(op, args, IF view.raised THEN "error" ELSE "ok", [data |-> view.data])

\* a.load_excel(file)
LoadExcel ==
    \E file \in Files :
      /\ analyzer' = load_excel(analyzer, file).a
      /\ ever_loaded' = (ever_loaded \/ load_excel(analyzer, file).ok)
      /\ resp' = Response("load_excel", <<>>,
                          IF load_excel(analyzer, file).ok THEN "ok" ELSE "rejected",
                          [message |-> load_excel(analyzer, file).msg,
                           missing |-> load_excel(analyzer, file).missing,
                           records |-> load_excel(analyzer, file).records,
                           nsuppliers |-> load_excel(analyzer, file).nsuppliers])

\* a.nps_target = target
AssignTarget ==
    \E target \in Targets :
      /\ analyzer' = WithTarget(analyzer, target)
      /\ resp' = Response("nps_target", <<target>>, "ok", [target |-> target])
      /\ UNCHANGED ever_loaded

\* a.get_overall_analysis()
CallOverall ==
    /\ resp' = Result("get_overall_analysis", <<>>, get_overall_analysis(analyzer))
    /\ UNCHANGED <<analyzer, ever_loaded>>

\* a.get_followup_management(supplier_id)
CallFollowup ==
    \E supplier_id \in SupplierIds :
      /\ resp' = Result("get_followup_management", <<supplier_id>>,
                        get_followup_management(analyzer, supplier_id))
      /\ UNCHANGED <<analyzer, ever_loaded>>

\* a.get_date_dimension(supplier_id)
CallDate ==
    \E supplier_id \in SupplierIds :
      /\ resp' = Result("get_date_dimension", <<supplier_id>>,
                        get_date_dimension(analyzer, supplier_id))
      /\ UNCHANGED <<analyzer, ever_loaded>>

\* a.get_account_dimension(supplier_id)
CallAccount ==
    \E supplier_id \in SupplierIds :
      /\ resp' = Result("get_account_dimension", <<supplier_id>>,
                        get_account_dimension(analyzer, supplier_id))
      /\ UNCHANGED <<analyzer, ever_loaded>>

\* a.get_follower_dimension(supplier_id)
CallFollower ==
    \E supplier_id \in SupplierIds :
      /\ resp' = Result("get_follower_dimension", <<supplier_id>>,
                        get_follower_dimension(analyzer, supplier_id))
      /\ UNCHANGED <<analyzer, ever_loaded>>

InitAnalyzer ==
    /\ analyzer = NPSAnalyzer(DefaultTarget)
    /\ resp = Response("start", <<>>, "ok", NoBody)
    /\ ever_loaded = FALSE

NextAnalyzer ==
    \/ LoadExcel
    \/ AssignTarget
    \/ CallOverall
    \/ CallFollowup
    \/ CallDate
    \/ CallAccount
    \/ CallFollower

SpecAnalyzer == InitAnalyzer /\ [][NextAnalyzer]_vars

(***************************************************************************)
(* The views as functions of the loaded table: an analyzer that has        *)
(* loaded one table, then only queried.                                    *)
(***************************************************************************)
\* three suppliers; a promoter, a detractor or a zero-weight order
RankRowSet ==
    {MkRow(sid, 1, wd[1], wd[2], 1000, 0) :
        sid \in {1, 2, 3}, wd \in {<<10, 0>>, <<10, 1>>, <<0, 0>>}}

\* one supplier; every weight, with and without detractor and feedback
FollowupRowSet ==
    {MkRow(1, 1, w, df[1], 1000, df[2]) :
        w \in {0, 6, 10}, df \in {<<0, 0>>, <<1, 0>>, <<1, 1>>}}

\* one supplier; two sub-accounts (followers, travel days), zero and full
\* weight, a fractional and a full promoter score
DimensionRowSet ==
    {MkRow(1, sub, w, 0, prom, 0) : sub \in {1, 2}, w \in {0, 10}, prom \in {333, 1000}}

QueryTables ==
    {WithOrderIds(t) :
        t \in SeqsUpTo(RankRowSet, MaxRows) \cup SeqsUpTo(FollowupRowSet, MaxRows)
              \cup SeqsUpTo(DimensionRowSet, MaxRows)}

InitQuery ==
    /\ \E rows \in QueryTables :
         analyzer = load_excel(NPSAnalyzer(DefaultTarget),
                               Sheet(REQUIRED_COLUMNS, rows)).a
    /\ resp = Response("start", <<>>, "ok", NoBody)
    /\ ever_loaded = TRUE

NextQuery ==
    \/ CallOverall
    \/ CallFollowup
    \/ CallDate
    \/ CallAccount
    \/ CallFollower

SpecQuery == InitQuery /\ [][NextQuery]_vars

(***************************************************************************)
(* Properties.                                                             *)
(***************************************************************************)
\* a table that passed the column check is installed
Loaded(a) ==
    /\ a.tag = "NPSAnalyzer"
    /\ a.df.tag = "DataFrame"
    /\ REQUIRED_COLUMNS \subseteq a.df.cols

QueryOps ==
    {"overall", "supplier", "download_overall", "download_supplier", "download_all"}

\* C1: after load_excel has rejected a sheet for missing columns, the
\* analyzer holds nothing of the rejected data: its df is absent, or is a
\* table that had passed the column check before.
C1_RejectedLoadInstallsNothing ==
    (resp.op = "load_excel" /\ resp.status = "rejected" /\ resp.body.missing # {})
        => (analyzer.df.tag = "None" \/ REQUIRED_COLUMNS \subseteq analyzer.df.cols)

\* C2: an upload that fails on the schema or on reading the file, made while
\* a dataset is active, leaves the session's analyzer (dataset, overall NPS
\* and target) as it was.
C2_FailedReloadKeepsSession ==
    [][(/\ Loaded(analyzer)
        /\ resp'.op = "upload"
        /\ resp'.status = "rejected"
        /\ resp'.body.message \in {"missing_columns", "read_error"})
       => analyzer' = analyzer]_vars

\* C3: as long as no load has succeeded, every query and export answers the
\* structured no-dataset failure.
C3_NoDataBeforeFirstLoad ==
    (~ever_loaded /\ resp.op \in QueryOps)
        => (resp.status = "rejected" /\ resp.body.message = "upload_first")

\* the baseline the overall NPS engine defines for a table
Baseline(rows) == IF SumSeq(rows, Den) > 0 THEN RawNps(rows) ELSE Frac(0, 1)

\* C4: every successful load leaves overall_nps equal to the unrounded nps of
\* the table just loaded (0 when its denominator sum is 0), and no other
\* operation on the analyzer changes overall_nps.
C4_OverallNpsIsBaseline ==
    [][IF resp'.op = "load_excel"
       THEN resp'.status = "ok" => analyzer'.overall_nps = Baseline(analyzer'.df.rows)
       ELSE analyzer'.overall_nps = analyzer.overall_nps]_vars

\* an overall entry without its below-target flag
WithoutFlag(e) == [e EXCEPT !.below_target = FALSE]
WithoutFlags(view) ==
    [raised |-> view.raised,
     data |-> [i \in DOMAIN view.data |-> WithoutFlag(view.data[i])]]

FlagsFollow(data, target) ==
    \A i \in DOMAIN data : data[i].below_target <=> (data[i].NPS < 100 * target)

\* C5: set_target changes only nps_target; the overall query afterwards
\* returns the same entries as before up to the below-target flags, and a
\* flag is set iff the entry's nps is below the target now in force.
C5_SetTargetOnlyMovesFlags ==
    [][/\ (resp'.op = "set_target" /\ resp'.status = "ok")
          => /\ analyzer'.nps_target = resp'.body.target
             /\ analyzer'.df = analyzer.df
             /\ analyzer'.overall_nps = analyzer.overall_nps
             /\ WithoutFlags(get_overall_analysis(analyzer'))
                  = WithoutFlags(get_overall_analysis(analyzer))
             /\ FlagsFollow(get_overall_analysis(analyzer').data, resp'.body.target)
       /\ (resp'.op = "overall" /\ resp'.status = "ok")
          => /\ resp'.body.target = analyzer'.nps_target
             /\ FlagsFollow(resp'.body.data, analyzer'.nps_target)]_vars

\* a target was set on a loaded session in which it separates two suppliers
C5_Witness ==
    /\ resp.op = "set_target" /\ resp.status = "ok"
    /\ Loaded(analyzer)
    /\ \E i, j \in DOMAIN get_overall_analysis(analyzer).data :
          /\ get_overall_analysis(analyzer).data[i].below_target
          /\ ~get_overall_analysis(analyzer).data[j].below_target

EntryKey(e) == <<e.supplier_id, e.supplier_name>>

RankedView(rows, data) ==
    LET keys == {SupplierKey(rows[i]) : i \in DOMAIN rows}
        k == Cardinality(keys)
    IN  /\ Len(data) = k
        /\ {data[i].rank : i \in DOMAIN data} = 1..k
        /\ \A key \in keys : \E i \in DOMAIN data :
              /\ EntryKey(data[i]) = key
              /\ data[i].NPS = calc_nps_metrics(GroupOf(rows, SupplierKey, key)).NPS
        /\ \A i, j \in DOMAIN data :
              /\ data[i].rank < data[j].rank => data[i].NPS >= data[j].NPS
              /\ (data[i].NPS = data[j].NPS /\ KeyLess(EntryKey(data[i]), EntryKey(data[j])))
                    => data[i].rank < data[j].rank

\* C6: the ranks of the supplier dimension are a permutation of 1..k for the
\* k supplier groups of the table, a better rank never has a smaller nps,
\* and suppliers of equal nps are ranked in the order the groups were found.
C6_RanksArePermutationByNps ==
    (resp.op = "get_overall_analysis" /\ resp.status = "ok")
        => RankedView(analyzer.df.rows, resp.body.data)

\* three suppliers ranked, the last two tied
C6_Witness ==
    /\ resp.op = "get_overall_analysis" /\ resp.status = "ok"
    /\ Len(resp.body.data) = 3
    /\ resp.body.data[1].NPS > resp.body.data[2].NPS
    /\ resp.body.data[2].NPS = resp.body.data[3].NPS

\* (nps - reference) * weight < 0, with nps and reference in hundredths
ContributionBelowZero(nps, reference, weight) == (nps - reference) * weight < 0

\* C7: in the sub-account and follower dimensions an entry is flagged
\* negative_contribution iff (its nps - the supplier's nps) x its weight < 0.
C7_NegativeFlagIsContributionSign ==
    (resp.op \in {"get_account_dimension", "get_follower_dimension"}
     /\ resp.status = "ok")
        => \A i \in DOMAIN resp.body.data :
              resp.body.data[i].negative <=>
                  ContributionBelowZero(
                      resp.body.data[i].NPS,
                      calc_nps_metrics(SupplierRows(analyzer, resp.args[1])).NPS,
                      resp.body.data[i].denominator)

\* C8: the cumulative nps of the last date row is the supplier's nps computed
\* from all of its rows.
C8_LastCumulativeIsSupplierNps ==
    (resp.op = "get_date_dimension" /\ resp.status = "ok" /\ resp.body.data # <<>>)
        => resp.body.data[Len(resp.body.data)].cumulative_nps
             = calc_nps_metrics(SupplierRows(analyzer, resp.args[1])).NPS

ClassifiedList(rows, data) ==
    /\ Len(data) = Len(rows)
    /\ \A r \in DOMAIN rows : \E i \in DOMAIN data :
          /\ data[i].order_id = rows[r].order_id
          /\ data[i].priority =
                IF rows[r].denominator = 10 /\ rows[r].detractor = 1 THEN 1
                ELSE IF rows[r].denominator = 6 THEN 2
                ELSE 3
    /\ \A i, j \in DOMAIN data :
          i < j => \/ data[i].priority < data[j].priority
                   \/ /\ data[i].priority = data[j].priority
                      /\ data[i].denominator >= data[j].denominator

\* C9: every order of the supplier is listed with priority 1 for weight 1 and
\* detractor, else 2 for weight 0.6, else 3, whatever its feedback flag; the
\* list is in ascending priority and, within a priority, descending weight.
C9_FollowupPriorityAndOrder ==
    (resp.op = "get_followup_management" /\ resp.status = "ok")
        => ClassifiedList(SupplierRows(analyzer, resp.args[1]), resp.body.data)

\* a priority-1 order that has feedback, then two priority-3 orders of
\* different weight
C9_Witness ==
    /\ resp.op = "get_followup_management" /\ resp.status = "ok"
    /\ Len(resp.body.data) = 3
    /\ resp.body.data[1].priority = 1 /\ resp.body.data[1].has_feedback
    /\ resp.body.data[2].priority = 3 /\ resp.body.data[3].priority = 3
    /\ resp.body.data[2].denominator > resp.body.data[3].denominator

\* C10: a query or export leaves the session's analyzer as it was.
C10_QueriesChangeNothing ==
    [][resp'.op \in QueryOps => analyzer' = analyzer]_vars

=============================================================================
